---- MODULE Spec2Model ----
(***************************************************************************)
(* The second-hand housing analyser: two Streamlit scripts, app.py and     *)
(* app1.py, that load three models, a scaler, the feature lists and the    *)
(* mappings, render the sidebar widgets and, when the button is pressed,   *)
(* run market segment, price level and unit price prediction in turn.      *)
(*                                                                         *)
(* Strings of the source are written in ASCII:                             *)
(*   fangwei = 方位, louceng = 楼层, suoshuquyu = 所属区域, fangling = 房龄 *)
(*   zongjia = 总价(万), mianji = 面积(㎡), jianzaoshijian = 建造时间,       *)
(*   loucengshu = 楼层数, shi = 室, ting = 厅, wei = 卫,                     *)
(*   shichangleibie = 市场类别, gaoyujunjia = 是否高于区域均价              *)
(***************************************************************************)
EXTENDS Integers, Sequences, FiniteSets, TLC

VARIABLES
    variant,              \* "app" (app.py) or "app1" (app1.py)
    pc,                   \* position of the script
    files_missing,        \* the required files absent from the directory
    files_corrupt,        \* the required files whose joblib.load raises
    resources,            \* load_resources()[0]: a record with loaded = FALSE for None
    load_error_info,      \* load_resources()[1]
    invalid_items,        \* items reported by the mapping / feature-list validation
    selectbox_inputs,     \* dict: categorical feature -> selected code or None
    numeric_inputs,       \* dict: numeric feature -> entered number
    all_select_valid,     \* app1.py only: every selectbox was created
    all_inputs,           \* the merged dict of one request
    prediction_possible,
    error_messages,
    market_pred_label,
    price_level_pred_label,
    price_level_pred_code,
    unit_price_pred,
    regression_attempted, \* app1.py only
    calls,                \* the transform / predict calls of the request, in order
    raised,               \* the calls of the request that raised
    display,              \* what the result stage rendered
    name_to_code_mapping, \* the argument of format_mapping_options_for_selectbox
    code_to_display_string \* what format_mapping_options_for_selectbox returned

vars == <<variant, pc, files_missing, files_corrupt, resources, load_error_info,
          invalid_items, selectbox_inputs, numeric_inputs, all_select_valid,
          all_inputs, prediction_possible, error_messages, market_pred_label,
          price_level_pred_label, price_level_pred_code, unit_price_pred,
          regression_attempted, calls, raised, display,
          name_to_code_mapping, code_to_display_string>>

-----------------------------------------------------------------------------
(* Python values.  A value is a record [t, v]: an int, the decimal string  *)
(* of a non-negative int, the v-th non-numeric string, or None.            *)

PyInt(n) == [t |-> "int", v |-> n]
PyStr(n) == [t |-> "str", v |-> n]
PyName(k) == [t |-> "name", v |-> k]
PyNone == [t |-> "none", v |-> 0]

\* int(x) returns for an int and for a string of digits; it raises ValueError
\* for another string and TypeError for None.
IntRaises(x) == x.t \in {"name", "none"}
IntOf(x) == x.v

\* str(x): the text of a value ("None" is the non-numeric string number 0).
StrOf(x) == IF x.t \in {"int", "str"} THEN PyStr(x.v)
            ELSE IF x.t = "none" THEN PyName(0) ELSE x

\* isinstance(v, (int, float, str)) and str(v).isdigit()
IsDigitValue(x) == x.t \in {"int", "str"} /\ x.v >= 0

-----------------------------------------------------------------------------
(* Python dicts keep insertion order: a dict is a sequence of <<key, value>> *)
(* pairs with pairwise distinct keys.                                        *)

DictKeys(d) == {d[i][1] : i \in DOMAIN d}
DictHas(d, k) == \E i \in DOMAIN d : d[i][1] = k
DictGet(d, k) == d[CHOOSE i \in DOMAIN d : d[i][1] = k][2]
DictGetOr(d, k, default) == IF DictHas(d, k) THEN DictGet(d, k) ELSE default
DictValues(d) == {d[i][2] : i \in DOMAIN d}
DictPut(d, k, x) ==
    IF DictHas(d, k)
    THEN [i \in DOMAIN d |-> IF d[i][1] = k THEN <<k, x>> ELSE d[i]]
    ELSE Append(d, <<k, x>>)

RECURSIVE DictMerge(_, _)
\* {**a, **b}
DictMerge(a, b) ==
    IF b = <<>> THEN a
    ELSE DictMerge(DictPut(a, Head(b)[1], Head(b)[2]), Tail(b))

RECURSIVE DictFromPairs(_)
DictFromPairs(ps) ==
    IF ps = <<>> THEN <<>>
    ELSE LET rest == DictFromPairs(SubSeq(ps, 1, Len(ps) - 1))
             last == ps[Len(ps)]
         IN DictPut(rest, last[1], last[2])

-----------------------------------------------------------------------------
(* format_mapping_options_for_selectbox.  A mapping entry is a record      *)
(* [isdict, items]: items is the name -> code dict when the object loaded   *)
(* is a dict.  A display string "<name> (<code>)" is [name, code], both     *)
(* texts.                                                                   *)

DisplayString(name, code) == [name |-> StrOf(name), code |-> StrOf(code)]

RECURSIVE Digits(_)
\* the decimal digits of a non-negative int
Digits(n) == IF n < 10 THEN <<n>> ELSE Append(Digits(n \div 10), n % 10)

RECURSIVE SeqLess(_, _)
\* lexicographic order of two sequences of numbers
SeqLess(a, b) ==
    IF b = <<>> THEN FALSE
    ELSE IF a = <<>> THEN TRUE
    ELSE IF Head(a) # Head(b) THEN Head(a) < Head(b)
    ELSE SeqLess(Tail(a), Tail(b))

\* a < b for two texts, by code point: digits come before letters, and the
\* non-numeric strings are numbered in their order.
StrLess(a, b) ==
    IF a.t = "str" /\ b.t = "str" THEN SeqLess(Digits(a.v), Digits(b.v))
    ELSE IF a.t = "str" THEN TRUE
    ELSE IF b.t = "str" THEN FALSE
    ELSE a.v < b.v

IntKeyLess(x, y) == IntOf(x[2]) < IntOf(y[2])
StrKeyLess(x, y) == StrLess(StrOf(x[2]), StrOf(y[2]))

\* x put into the sorted s behind every item that is not greater: sorted() is stable
InsertStable(x, s, by_int) ==
    LET n == Cardinality({i \in DOMAIN s :
                            ~(IF by_int THEN IntKeyLess(x, s[i]) ELSE StrKeyLess(x, s[i]))})
    IN SubSeq(s, 1, n) \o <<x>> \o SubSeq(s, n + 1, Len(s))

\* variant for C13: the items left in the order of the mapping
InMappingOrder(items) == items

RECURSIVE SortedByInt(_)
\* sorted(items, key=lambda item: int(item[1]))
SortedByInt(items) ==
    IF items = <<>> THEN <<>>
    ELSE InsertStable(items[Len(items)],
                      SortedByInt(SubSeq(items, 1, Len(items) - 1)), TRUE)

RECURSIVE SortedByStr(_)
\* sorted(items, key=lambda item: str(item[1]))
SortedByStr(items) ==
    IF items = <<>> THEN <<>>
    ELSE InsertStable(items[Len(items)],
                      SortedByStr(SubSeq(items, 1, Len(items) - 1)), FALSE)

\* app.py 71-98
FormatApp(entry) ==
    IF ~entry.isdict THEN <<>>
    ELSE LET items == entry.items IN
         IF \E i \in DOMAIN items : IntRaises(items[i][2])
         THEN LET kept == SelectSeq(items, LAMBDA it : IsDigitValue(it[2]))
              IN DictFromPairs([i \in DOMAIN kept |->
                    <<PyInt(IntOf(kept[i][2])),
                      DisplayString(kept[i][1], PyInt(IntOf(kept[i][2])))>>])
         ELSE LET sorted_items == SortedByInt(items)
              IN DictFromPairs([i \in DOMAIN sorted_items |->
                    <<PyInt(IntOf(sorted_items[i][2])),
                      DisplayString(sorted_items[i][1],
                                    PyInt(IntOf(sorted_items[i][2])))>>])

\* app1.py 61-94
FormatApp1(entry) ==
    IF ~entry.isdict THEN <<>>
    ELSE LET items == entry.items IN
         IF \E i \in DOMAIN items : items[i][2].t = "none"
         THEN \* TypeError, in sorted() or in the loop: the fallback map
              DictFromPairs([i \in DOMAIN items |->
                    <<items[i][2], DisplayString(items[i][1], items[i][2])>>])
         ELSE LET sorted_items ==
                      IF \E i \in DOMAIN items : IntRaises(items[i][2])
                      THEN SortedByStr(items) ELSE SortedByInt(items)
              IN DictFromPairs([i \in DOMAIN sorted_items |->
                    <<IF IntRaises(sorted_items[i][2])
                      THEN StrOf(sorted_items[i][2])
                      ELSE PyInt(IntOf(sorted_items[i][2])),
                      DisplayString(sorted_items[i][1], sorted_items[i][2])>>])

format_mapping_options_for_selectbox(v, entry) ==
    IF v = "app" THEN FormatApp(entry) ELSE FormatApp1(entry)

-----------------------------------------------------------------------------
(* The resource files and what they may hold.                               *)

MARKET_MODEL_PATH == "market_segment_lgbm_model.joblib"
PRICE_LEVEL_MODEL_PATH == "price_level_rf_model.joblib"
REGRESSION_MODEL_PATH == "unit_price_rf_model.joblib"
SCALER_PATH == "regression_scaler.joblib"
FEATURE_NAMES_PATH == "feature_names.joblib"
MAPPINGS_PATH == "mappings.joblib"

required_files == <<MARKET_MODEL_PATH, PRICE_LEVEL_MODEL_PATH, REGRESSION_MODEL_PATH,
                    SCALER_PATH, FEATURE_NAMES_PATH, MAPPINGS_PATH>>

required_mappings == <<"fangwei", "louceng", "suoshuquyu", "fangling",
                       "shichangleibie", "gaoyujunjia">>
required_features == <<"market", "price_level", "regression">>

Variants == {"app", "app1"}
Models == {"market", "price_level", "regression"}

\* the largest code a classifier stub returns
MaxCode == 2
\* what a classifier stub returns: an integer code, or a string label (a model
\* trained on the labels themselves)
ClassifierOutputs == {PyInt(c) : c \in 1..MaxCode} \cup {PyName(9)}
\* what the regressor stub returns
RegressorOutputs == {-50, 120}

DictEntry(items) == [isdict |-> TRUE, items |-> items]
NotADict == [isdict |-> FALSE, items |-> <<>>]
ListEntry(items) == [islist |-> TRUE, items |-> items]
NotAList == [islist |-> FALSE, items |-> <<>>]

\* the categorical mappings, name -> code (names 11.. are option names)
OrientationMappings == { << <<PyName(11), PyInt(1)>> >>, <<>> }
FloorMapping == << <<PyName(13), PyInt(1)>> >>
DistrictMapping == << <<PyName(14), PyInt(0)>> >>
AgeMapping == << <<PyName(15), PyInt(2)>> >>

\* the output mappings of a classifier: keyed by code (0 and 1 are mapped, to the
\* labels named 1 and 2), or keyed by name as the categorical mappings are
OutputMappings ==
    { <<<<PyInt(0), PyName(1)>>, <<PyInt(1), PyName(2)>>>>,
      <<<<PyName(1), PyInt(0)>>, <<PyName(2), PyInt(1)>>>> }

\* the feature lists a model may have been trained with: in the order of the
\* widgets, against it, and with two names no widget collects
FeatureLists ==
    { <<"fangwei", "mianji", "ting">>,
      <<"ting", "zongjia", "louceng">>,
      <<"mianji", "danjia", "fangwei", "xiaoqu">> }

MakeMappings(o, mk, pl) ==
    << <<"fangwei", DictEntry(o)>>, <<"louceng", DictEntry(FloorMapping)>>,
       <<"suoshuquyu", DictEntry(DistrictMapping)>>, <<"fangling", DictEntry(AgeMapping)>>,
       <<"shichangleibie", DictEntry(mk)>>, <<"gaoyujunjia", DictEntry(pl)>> >>

MakeFeatureNames(m, p, r) ==
    << <<"market", ListEntry(m)>>, <<"price_level", ListEntry(p)>>,
       <<"regression", ListEntry(r)>> >>

MakeStore(mc, pc_, rv, fn, mp) ==
    [market_model |-> mc, price_level_model |-> pc_, regression_model |-> rv,
     scaler |-> "StandardScaler", feature_names |-> fn, mappings |-> mp]

DefaultMappings ==
    MakeMappings(<< <<PyName(11), PyInt(1)>> >>,
                 <<<<PyInt(0), PyName(1)>>, <<PyInt(1), PyName(2)>>>>,
                 <<<<PyInt(0), PyName(1)>>, <<PyInt(1), PyName(2)>>>>)
DefaultFeatureNames ==
    MakeFeatureNames(<<"fangwei", "mianji", "ting">>, <<"fangwei", "mianji", "ting">>,
                     <<"fangwei", "mianji", "ting">>)

\* d without key k, and d with key k bound to an object of the wrong type
DictWithout(d, k) == SelectSeq(d, LAMBDA it : it[1] # k)

\* files whose content passes the validation (the two output mappings of one
\* mappings file are keyed the same way)
ValidStores ==
    { MakeStore(mc, pc_, rv, MakeFeatureNames(m, p, r), MakeMappings(o, om, om)) :
        mc \in ClassifierOutputs, pc_ \in ClassifierOutputs, rv \in RegressorOutputs,
        m \in FeatureLists, p \in FeatureLists, r \in FeatureLists,
        o \in OrientationMappings, om \in OutputMappings }

\* files with a required key missing or of the wrong type
BrokenStores ==
    { MakeStore(PyInt(1), PyInt(1), 120, fn, mp) :
        fn \in { DictWithout(DefaultFeatureNames, "regression"),
                 DictWithout(DefaultFeatureNames, "price_level"),
                 DictPut(DictWithout(DefaultFeatureNames, "market"),
                         "regression", NotAList) },
        mp \in { DefaultMappings,
                 DictWithout(DefaultMappings, "louceng"),
                 DictPut(DictWithout(DefaultMappings, "fangling"),
                         "shichangleibie", NotADict) } }

\* files that hold every required key with the required type, with a mapping
\* that gives one code to two names, or with a feature list that names nothing
DegenerateStores ==
    { MakeStore(PyInt(1), PyInt(1), 120, DefaultFeatureNames,
                MakeMappings(<< <<PyName(11), PyInt(1)>>, <<PyName(12), PyInt(1)>> >>,
                             <<<<PyInt(0), PyName(1)>>, <<PyInt(1), PyName(2)>>>>,
                             <<<<PyInt(0), PyName(1)>>, <<PyInt(1), PyName(2)>>>>)),
      MakeStore(PyInt(1), PyInt(1), 120,
                MakeFeatureNames(<<>>, <<"fangwei", "mianji", "ting">>,
                                 <<"fangwei", "mianji", "ting">>),
                DefaultMappings) }

\* files whose regressor returns the number the scripts use for "no result"
SentinelStores ==
    { MakeStore(PyInt(1), PyInt(1), -1, DefaultFeatureNames, DefaultMappings) }

\* files whose market feature list names one feature twice: a feature the widgets
\* collect, and a feature no widget collects
DuplicateNameStores ==
    { MakeStore(PyInt(1), PyInt(1), 120,
                MakeFeatureNames(m, <<"fangwei", "mianji", "ting">>,
                                 <<"fangwei", "mianji", "ting">>),
                DefaultMappings) :
        m \in { <<"mianji", "mianji", "ting">>, <<"danjia", "danjia", "ting">> } }

ArtifactStores ==
    ValidStores \cup BrokenStores \cup DegenerateStores \cup SentinelStores
        \cup DuplicateNameStores

NoResources == [loaded |-> FALSE]
Loaded(store) ==
    [loaded |-> TRUE, market_model |-> store.market_model,
     price_level_model |-> store.price_level_model,
     regression_model |-> store.regression_model, scaler |-> store.scaler,
     feature_names |-> store.feature_names, mappings |-> store.mappings]

-----------------------------------------------------------------------------
(* The sidebar widgets.                                                     *)

categorical_keys == <<"fangwei", "louceng", "suoshuquyu", "fangling">>
numeric_keys == <<"zongjia", "mianji", "jianzaoshijian", "loucengshu", "shi", "ting", "wei">>

\* number_input(min_value=..., value=...) of each numeric widget
NumericMin(v, k) ==
    CASE k = "zongjia" -> 10
      [] k = "mianji" -> IF v = "app" THEN 30 ELSE 20
      [] k = "jianzaoshijian" -> 1970
      [] k = "loucengshu" -> 1
      [] k = "shi" -> 1
      [] k = "ting" -> 0
      [] k = "wei" -> 0
NumericDefault(v, k) ==
    CASE k = "zongjia" -> IF v = "app" THEN 100 ELSE 120
      [] k = "mianji" -> IF v = "app" THEN 100 ELSE 95
      [] k = "jianzaoshijian" -> IF v = "app" THEN 2018 ELSE 2015
      [] k = "loucengshu" -> 18
      [] k = "shi" -> 3
      [] k = "ting" -> 2
      [] k = "wei" -> 1

\* the widgets the user may edit (to the widget's minimum); the others keep their
\* default.  A table of entries, in the script's order, per set of edited widgets.
EditedWidgets == {"ting"}
NumericTables(v) ==
    { [i \in DOMAIN numeric_keys |->
         <<numeric_keys[i],
           PyInt(IF numeric_keys[i] \in edited THEN NumericMin(v, numeric_keys[i])
                 ELSE NumericDefault(v, numeric_keys[i]))>>] :
      edited \in SUBSET EditedWidgets }

Reverse(s) == [i \in DOMAIN s |-> s[Len(s) + 1 - i]]
\* the orders in which the entries of the two tables are inserted: the script's,
\* and its reverse
InsertionOrders == {"script", "reversed"}
Inserted(order, table) == IF order = "script" THEN table ELSE Reverse(table)

\* the options of a selectbox: the keys of the formatted mapping, in order
OptionCodes(v, res, key) ==
    LET display_map == format_mapping_options_for_selectbox(v, DictGet(res.mappings, key))
    IN [i \in DOMAIN display_map |-> display_map[i][1]]

\* what st.sidebar.selectbox may return: one of the options; None when there is
\* none (app.py), or when create_selectbox raised on the empty map (app1.py)
SelectboxValues(v, res, key) ==
    LET options_codes == OptionCodes(v, res, key)
    IN IF options_codes = <<>> THEN {PyNone}
       ELSE {options_codes[i] : i \in DOMAIN options_codes}

-----------------------------------------------------------------------------
(* The request's local variables before the button is pressed.              *)

NotPredicted == [t |-> "not_predicted", v |-> 0]   \* "未进行预测"
Processing == [t |-> "processing", v |-> 0]        \* "处理中..."
PredictionFailed == [t |-> "failed", v |-> 0]      \* "预测失败"
\* "预测编码无效 (<code>)" / "未知编码 (<key>)"
InvalidCodeLabel(code) ==
    IF code.t = "name" THEN [t |-> "invalid_name", v |-> code.v]
    ELSE [t |-> "invalid", v |-> code.v]

InitialLabel(v) == IF v = "app" THEN NotPredicted ELSE Processing
InitialPriceLevelCode(v) == IF v = "app" THEN PyInt(-1) ELSE PyInt(-99)
UnitPriceFailed == -1

NothingShown ==
    [panel |-> FALSE, market |-> "none", price_level |-> "none",
     unit_price |-> "none", status |-> "none", errors |-> <<>>]

RequestReset ==
    /\ all_inputs' = <<>>
    /\ prediction_possible' = TRUE
    /\ error_messages' = <<>>
    /\ market_pred_label' = InitialLabel(variant)
    /\ price_level_pred_label' = InitialLabel(variant)
    /\ price_level_pred_code' = InitialPriceLevelCode(variant)
    /\ unit_price_pred' = UnitPriceFailed
    /\ regression_attempted' = FALSE
    /\ calls' = <<>>
    /\ raised' = {}
    /\ display' = NothingShown

startup_vars == <<files_missing, files_corrupt, resources, load_error_info>>
widget_vars == <<selectbox_inputs, numeric_inputs, all_select_valid>>
request_vars == <<all_inputs, prediction_possible, error_messages, market_pred_label,
                  price_level_pred_label, price_level_pred_code, unit_price_pred,
                  regression_attempted, calls, raised, display>>
formatter_vars == <<name_to_code_mapping, code_to_display_string>>

Init ==
    /\ variant \in Variants
    /\ pc = "load"
    /\ files_missing = {}
    /\ files_corrupt = {}
    /\ resources = NoResources
    /\ load_error_info = <<>>
    /\ invalid_items = <<>>
    /\ selectbox_inputs = <<>>
    /\ numeric_inputs = <<>>
    /\ all_select_valid = TRUE
    /\ all_inputs = <<>>
    /\ prediction_possible = TRUE
    /\ error_messages = <<>>
    /\ market_pred_label = InitialLabel(variant)
    /\ price_level_pred_label = InitialLabel(variant)
    /\ price_level_pred_code = InitialPriceLevelCode(variant)
    /\ unit_price_pred = UnitPriceFailed
    /\ regression_attempted = FALSE
    /\ calls = <<>>
    /\ raised = {}
    /\ display = NothingShown
    /\ name_to_code_mapping = NotADict
    /\ code_to_display_string = <<>>

-----------------------------------------------------------------------------
(* Start-up.                                                                *)

FileSet == {required_files[i] : i \in DOMAIN required_files}

\* load_resources: every missing file is collected; the loads run in the order of
\* required_files inside one try, so the first load that raises ends them
LoadResult(missing, corrupt, store) ==
    IF missing # {}
    THEN [resources |-> NoResources,
          info |-> LET gone == SelectSeq(required_files, LAMBDA f : f \in missing)
                   IN [i \in DOMAIN gone |-> [kind |-> "missing_file", file |-> gone[i]]]]
    ELSE IF corrupt # {}
    THEN [resources |-> NoResources,
          info |-> << [kind |-> "load_error",
                       file |-> Head(SelectSeq(required_files, LAMBDA f : f \in corrupt))] >>]
    ELSE [resources |-> Loaded(store), info |-> <<>>]

LoadFrom(stores) ==
    /\ pc = "load"
    /\ \E missing \in SUBSET FileSet :
         \E corrupt \in SUBSET (FileSet \ missing) :
           \E store \in (IF missing = {} /\ corrupt = {} THEN stores
                         ELSE {CHOOSE st \in stores : TRUE}) :
             LET r == LoadResult(missing, corrupt, store) IN
             /\ files_missing' = missing
             /\ files_corrupt' = corrupt
             /\ resources' = r.resources
             /\ load_error_info' = r.info
    /\ pc' = "loaded"
    /\ UNCHANGED <<variant, invalid_items>>
    /\ UNCHANGED widget_vars
    /\ UNCHANGED request_vars
    /\ UNCHANGED formatter_vars

load_resources == LoadFrom(ArtifactStores)

\* "if not resources: ... st.stop()"
StopOnLoadFailure ==
    /\ pc = "loaded"
    /\ ~resources.loaded
    /\ pc' = "init_failed"
    /\ UNCHANGED <<variant, invalid_items>>
    /\ UNCHANGED startup_vars
    /\ UNCHANGED formatter_vars
    /\ UNCHANGED widget_vars
    /\ UNCHANGED request_vars

\* the two validation loops: every offending key is reported
InvalidMappingKeys(res) ==
    SelectSeq(required_mappings,
              LAMBDA key : ~DictHas(res.mappings, key) \/ ~DictGet(res.mappings, key).isdict)
InvalidFeatureKeys(res) ==
    SelectSeq(required_features,
              LAMBDA key : ~DictHas(res.feature_names, key)
                           \/ ~DictGet(res.feature_names, key).islist)
\* variant for C12: only the loop over required_mappings
InvalidMappingsOnly(res) ==
    LET mk == InvalidMappingKeys(res)
    IN [i \in DOMAIN mk |-> [kind |-> "mapping", key |-> mk[i]]]

MissingOrInvalid(res) ==
    LET mk == InvalidMappingKeys(res)
        fk == InvalidFeatureKeys(res)
    IN [i \in DOMAIN mk |-> [kind |-> "mapping", key |-> mk[i]]]
       \o [i \in DOMAIN fk |-> [kind |-> "feature_list", key |-> fk[i]]]

ValidateResources ==
    /\ pc = "loaded"
    /\ resources.loaded
    /\ invalid_items' = MissingOrInvalid(resources)
    /\ pc' = IF invalid_items' = <<>> THEN "sidebar" ELSE "invalid"
    /\ UNCHANGED variant
    /\ UNCHANGED startup_vars
    /\ UNCHANGED formatter_vars
    /\ UNCHANGED widget_vars
    /\ UNCHANGED request_vars

\* the widgets of the sidebar: four selectboxes, seven number inputs
RenderSidebar ==
    /\ pc = "sidebar"
    /\ \E o \in SelectboxValues(variant, resources, "fangwei"),
          f \in SelectboxValues(variant, resources, "louceng"),
          d \in SelectboxValues(variant, resources, "suoshuquyu"),
          a \in SelectboxValues(variant, resources, "fangling"),
          table \in NumericTables(variant),
          order \in InsertionOrders :
         /\ selectbox_inputs' = Inserted(order, << <<"fangwei", o>>, <<"louceng", f>>,
                                                  <<"suoshuquyu", d>>, <<"fangling", a>> >>)
         /\ numeric_inputs' = Inserted(order, table)
         /\ all_select_valid' = (variant = "app1" => PyNone \notin {o, f, d, a})
    /\ pc' = "idle"
    /\ UNCHANGED <<variant, invalid_items>>
    /\ UNCHANGED startup_vars
    /\ UNCHANGED formatter_vars
    /\ UNCHANGED request_vars

-----------------------------------------------------------------------------
(* The pieces of one model's step.                                          *)

FeaturesNeeded(res, m) == DictGet(res.feature_names, m).items
OutputMapKey(m) == IF m = "market" THEN "shichangleibie" ELSE "gaoyujunjia"
\* mappings.get('市场类别', {})
OutputMap(res, m) ==
    IF DictHas(res.mappings, OutputMapKey(m))
    THEN DictGet(res.mappings, OutputMapKey(m)).items ELSE <<>>

\* variant for C9: absent features filled with a default, all_inputs.get(feat, 0)
CollectInputsDefaulting(needed, inputs) ==
    DictFromPairs([i \in DOMAIN needed |->
                     <<needed[i], DictGetOr(inputs, needed[i], PyInt(0))>>])

\* {feat: all_inputs[feat] for feat in needed if feat in all_inputs}, and the loop
\* of app1.py that fills input_data_* the same way
CollectInputs(needed, inputs) ==
    LET present == SelectSeq(needed, LAMBDA feat : DictHas(inputs, feat))
    IN DictFromPairs([i \in DOMAIN present |->
                        <<present[i], DictGet(inputs, present[i])>>])

\* app.py: len(input_data) != len(needed), missing = set(needed) - set(input_data.keys())
CompletenessApp(needed, inputs) ==
    LET input_data == CollectInputs(needed, inputs)
    IN [incomplete |-> Len(input_data) # Len(needed),
        names |-> {needed[i] : i \in DOMAIN needed} \ DictKeys(input_data),
        listed |-> <<>>]

\* variant for C2: the check stops at the first name that is not in all_inputs
CompletenessFirstOnly(needed, inputs) ==
    LET missing_feats == SelectSeq(needed, LAMBDA feat : ~DictHas(inputs, feat))
    IN [incomplete |-> missing_feats # <<>>,
        names |-> IF missing_feats = <<>> THEN {} ELSE {missing_feats[1]},
        listed |-> IF missing_feats = <<>> THEN <<>> ELSE <<missing_feats[1]>>]

\* app1.py: missing_*_feats collects every name not in all_inputs; "if missing_*_feats"
CompletenessApp1(needed, inputs) ==
    LET missing_feats == SelectSeq(needed, LAMBDA feat : ~DictHas(inputs, feat))
    IN [incomplete |-> missing_feats # <<>>,
        names |-> {missing_feats[i] : i \in DOMAIN missing_feats},
        listed |-> missing_feats]

CompletenessCheck(v, needed, inputs) ==
    IF v = "app" THEN CompletenessApp(needed, inputs) ELSE CompletenessApp1(needed, inputs)

\* variant for C4: the columns in the order in which the inputs were inserted
BuildRowInsertionOrder(needed, inputs) ==
    LET held == SelectSeq(inputs, LAMBDA p : \E i \in DOMAIN needed : needed[i] = p[1])
    IN [i \in DOMAIN held |-> held[i][2]]

\* pd.DataFrame([input_data])[needed]: the columns named by needed, in its order
BuildRow(needed, inputs) ==
    LET input_data == CollectInputs(needed, inputs)
    IN [i \in DOMAIN needed |-> DictGet(input_data, needed[i])]

\* variant for C15: the row handed on as it is
Unscaled(row) == row

\* scaler.transform(row): every value standardised
Transform(row) == [i \in DOMAIN row |-> [t |-> "scaled", v |-> row[i].v]]

\* variant for C3: the mapping searched for the code among its values
DecodeByValue(output_map, code) ==
    IF IntRaises(code) THEN [raises |-> TRUE, label |-> NotPredicted]
    ELSE [raises |-> FALSE,
          label |-> IF \E i \in DOMAIN output_map : output_map[i][2] = code
                    THEN output_map[CHOOSE i \in DOMAIN output_map :
                                        output_map[i][2] = code][1]
                    ELSE InvalidCodeLabel(code)]

\* variant for C7: output_map[int(code)], which raises for a code that is no key
DecodeStrict(output_map, code) ==
    IF IntRaises(code) \/ ~DictHas(output_map, PyInt(IntOf(code)))
    THEN [raises |-> TRUE, label |-> NotPredicted]
    ELSE [raises |-> FALSE, label |-> DictGet(output_map, PyInt(IntOf(code)))]

\* app.py: output_map.get(int(code), f"预测编码无效 ({code})"); int() may raise
DecodeApp(output_map, code) ==
    IF IntRaises(code) THEN [raises |-> TRUE, label |-> NotPredicted]
    ELSE [raises |-> FALSE,
          label |-> DictGetOr(output_map, PyInt(IntOf(code)), InvalidCodeLabel(code))]

\* app1.py: the key is int(code) for an integer and str(code) otherwise
DecodeApp1(output_map, code) ==
    LET pred_key == IF code.t = "int" THEN code ELSE StrOf(code)
    IN [raises |-> FALSE,
        label |-> DictGetOr(output_map, pred_key, InvalidCodeLabel(pred_key))]

DecodeLabel(v, output_map, code) ==
    IF v = "app" THEN DecodeApp(output_map, code) ELSE DecodeApp1(output_map, code)

\* variant for C19: the floor put at the failure value
ClampAtSentinel(x) == IF x < -1 THEN -1 ELSE x

\* variant for C6: the prediction kept as the regressor returned it
KeepPrice(x) == x

\* max(0, unit_price_pred)
ClampPrice(x) == IF x < 0 THEN 0 ELSE x

\* the exception classes a forced failure raises
ForcedExceptions == {"KeyError", "RuntimeError"}
\* the classes derived from Exception
ExceptionClasses == {"KeyError", "ValueError", "TypeError", "RuntimeError"}

\* variant for C8: only the clause for KeyError
HandlerKeyErrorOnly(v, exc) == IF exc = "KeyError" THEN "input_preparation" ELSE "none"

\* the except clause that takes an exception: app.py has one for KeyError
\* ("输入准备错误") and one for Exception ("预测时发生错误"), app1.py a single one for
\* Exception ("预测出错"); "none" when no clause matches and the exception leaves
\* the try statement
Handler(v, exc) ==
    IF exc \notin ExceptionClasses THEN "none"
    ELSE IF v = "app1" THEN "prediction_error"
    ELSE IF exc = "KeyError" THEN "input_preparation" ELSE "prediction"

\* raise KeyError(f"...缺少输入特征: {missing}")
MissingMessage(v, m, check) ==
    [model |-> m, kind |-> "missing_features", prefix |-> Handler(v, "KeyError"),
     exc |-> "KeyError", at |-> "completeness", names |-> check.names,
     listed |-> check.listed]

ExceptionMessage(v, m, exc, at) ==
    [model |-> m, kind |-> "exception", prefix |-> Handler(v, exc),
     exc |-> exc, at |-> at, names |-> {}, listed |-> <<>>]

PredictCall(m, row) == [op |-> "predict", on |-> m, arg |-> row]
TransformCall(row) == [op |-> "transform", on |-> "scaler", arg |-> row]

\* variant for C16: the regression step moved before the price level step
StepAfterSwapped(step) ==
    CASE step = "market" -> "regression"
      [] step = "regression" -> "price_level"
      [] step = "price_level" -> "report"

\* the three try blocks follow one another in the script: market segment, price
\* level, unit price, then the result stage
StepAfter(step) ==
    CASE step = "market" -> "price_level"
      [] step = "price_level" -> "regression"
      [] step = "regression" -> "report"

-----------------------------------------------------------------------------
(* The button handler.                                                      *)

\* the button is disabled in app1.py when a selectbox could not be created
ButtonEnabled == variant = "app1" => all_select_valid

\* variant for C5: no check of the selections
NoGate(sel) == FALSE

\* "if None in selectbox_inputs.values()": the request is refused as a whole
NoneGate(sel) == PyNone \in DictValues(sel)

PressButton ==
    /\ pc = "idle"
    /\ ButtonEnabled
    /\ IF NoneGate(selectbox_inputs)
       THEN /\ pc' = "rejected"
            /\ display' = [NothingShown EXCEPT !.status = "input_error"]
            /\ UNCHANGED <<all_inputs, prediction_possible, error_messages,
                           market_pred_label, price_level_pred_label,
                           price_level_pred_code, unit_price_pred,
                           regression_attempted, calls, raised>>
       ELSE /\ pc' = "market"
            /\ all_inputs' = DictMerge(selectbox_inputs, numeric_inputs)
            /\ prediction_possible' = TRUE
            /\ error_messages' = <<>>
            /\ market_pred_label' = InitialLabel(variant)
            /\ price_level_pred_label' = InitialLabel(variant)
            /\ price_level_pred_code' = InitialPriceLevelCode(variant)
            /\ unit_price_pred' = UnitPriceFailed
            /\ regression_attempted' = FALSE
            /\ calls' = <<>>
            /\ raised' = {}
            /\ display' = NothingShown
    /\ UNCHANGED <<variant, invalid_items>>
    /\ UNCHANGED startup_vars
    /\ UNCHANGED formatter_vars
    /\ UNCHANGED widget_vars

\* an exception inside the market try: the clause that takes it records the message
\* and clears prediction_possible (app1.py also sets the label); with no clause the
\* exception ends the script
MarketRaises(msg) ==
    IF Handler(variant, msg.exc) # "none"
    THEN /\ pc' = StepAfter("market")
         /\ error_messages' = Append(error_messages, msg)
         /\ prediction_possible' = FALSE
         /\ market_pred_label' =
                IF variant = "app" THEN market_pred_label ELSE PredictionFailed
    ELSE /\ pc' = "crashed"
         /\ UNCHANGED <<error_messages, prediction_possible, market_pred_label>>

MarketStep ==
    /\ pc = "market"
    /\ LET needed == FeaturesNeeded(resources, "market")
           check == CompletenessCheck(variant, needed, all_inputs)
           row == BuildRow(needed, all_inputs)
           dec == DecodeLabel(variant, OutputMap(resources, "market"),
                              resources.market_model)
       IN \/ /\ check.incomplete
             /\ MarketRaises(MissingMessage(variant, "market", check))
             /\ UNCHANGED <<calls, raised>>
          \/ /\ ~check.incomplete
             /\ calls' = Append(calls, PredictCall("market", row))
             /\ \E exc \in ForcedExceptions :
                  MarketRaises(ExceptionMessage(variant, "market", exc, "predict"))
             /\ raised' = raised \cup {"market"}
          \/ /\ ~check.incomplete
             /\ calls' = Append(calls, PredictCall("market", row))
             /\ raised' = raised
             /\ IF dec.raises
                THEN MarketRaises(ExceptionMessage(variant, "market", "ValueError", "decode"))
                ELSE /\ pc' = StepAfter("market")
                     /\ market_pred_label' = dec.label
                     /\ UNCHANGED <<error_messages, prediction_possible>>
    /\ UNCHANGED <<variant, invalid_items, all_inputs, price_level_pred_label,
                   price_level_pred_code, unit_price_pred, regression_attempted, display>>
    /\ UNCHANGED startup_vars
    /\ UNCHANGED formatter_vars
    /\ UNCHANGED widget_vars

\* an exception inside the price level try: app.py clears prediction_possible,
\* app1.py sets the label and the code and leaves prediction_possible alone
PriceLevelRaises(msg) ==
    IF Handler(variant, msg.exc) # "none"
    THEN /\ pc' = StepAfter("price_level")
         /\ error_messages' = Append(error_messages, msg)
         /\ prediction_possible' = IF variant = "app" THEN FALSE ELSE prediction_possible
         /\ price_level_pred_label' =
                IF variant = "app" THEN price_level_pred_label ELSE PredictionFailed
         /\ price_level_pred_code' =
                IF variant = "app" THEN price_level_pred_code ELSE PyInt(-99)
    ELSE /\ pc' = "crashed"
         /\ UNCHANGED <<error_messages, prediction_possible, price_level_pred_label,
                        price_level_pred_code>>

\* the code kept for the colour of the result: app.py keeps what predict returned,
\* app1.py keeps an integer and -99 otherwise
KeptPriceLevelCode(v, code) ==
    IF v = "app" THEN code ELSE IF code.t = "int" THEN code ELSE PyInt(-99)

\* variant for C18: the price level step entered whatever came before
PriceLevelAlwaysEntered == TRUE

\* the price level step is entered only "if prediction_possible"
PriceLevelEntered == prediction_possible

PriceLevelStep ==
    /\ pc = "price_level"
    /\ LET needed == FeaturesNeeded(resources, "price_level")
           check == CompletenessCheck(variant, needed, all_inputs)
           row == BuildRow(needed, all_inputs)
           dec == DecodeLabel(variant, OutputMap(resources, "price_level"),
                              resources.price_level_model)
       IN \/ /\ ~PriceLevelEntered
             /\ pc' = StepAfter("price_level")
             /\ UNCHANGED <<error_messages, prediction_possible, price_level_pred_label,
                            price_level_pred_code, calls, raised>>
          \/ /\ PriceLevelEntered
             /\ check.incomplete
             /\ PriceLevelRaises(MissingMessage(variant, "price_level", check))
             /\ UNCHANGED <<calls, raised>>
          \/ /\ PriceLevelEntered
             /\ ~check.incomplete
             /\ calls' = Append(calls, PredictCall("price_level", row))
             /\ \E exc \in ForcedExceptions :
                  PriceLevelRaises(ExceptionMessage(variant, "price_level", exc, "predict"))
             /\ raised' = raised \cup {"price_level"}
          \/ /\ PriceLevelEntered
             /\ ~check.incomplete
             /\ calls' = Append(calls, PredictCall("price_level", row))
             /\ raised' = raised
             /\ IF dec.raises
                THEN PriceLevelRaises(ExceptionMessage(variant, "price_level",
                                                       "ValueError", "decode"))
                ELSE /\ pc' = StepAfter("price_level")
                     /\ price_level_pred_label' = dec.label
                     /\ price_level_pred_code' =
                            KeptPriceLevelCode(variant, resources.price_level_model)
                     /\ UNCHANGED <<error_messages, prediction_possible>>
    /\ UNCHANGED <<variant, invalid_items, all_inputs, market_pred_label,
                   unit_price_pred, regression_attempted, display>>
    /\ UNCHANGED startup_vars
    /\ UNCHANGED formatter_vars
    /\ UNCHANGED widget_vars

\* variant for C17: the regression step entered only while no message is recorded
RegressionEnteredNoMessage == error_messages = <<>>

\* variant for C1: the regression step gated in both scripts
RegressionEnteredGated == prediction_possible

\* app.py enters the regression step only "if prediction_possible"; app1.py always
RegressionEntered == variant = "app1" \/ prediction_possible

\* an exception inside the regression try
RegressionRaises(msg) ==
    IF Handler(variant, msg.exc) # "none"
    THEN /\ pc' = StepAfter("regression")
         /\ error_messages' = Append(error_messages, msg)
         /\ unit_price_pred' = UnitPriceFailed
         /\ prediction_possible' = IF variant = "app" THEN FALSE ELSE prediction_possible
    ELSE /\ pc' = "crashed"
         /\ UNCHANGED <<error_messages, unit_price_pred, prediction_possible>>

RegressionStep ==
    /\ pc = "regression"
    /\ LET needed == FeaturesNeeded(resources, "regression")
           check == CompletenessCheck(variant, needed, all_inputs)
           row == BuildRow(needed, all_inputs)
       IN \/ /\ ~RegressionEntered
             /\ pc' = StepAfter("regression")
             /\ UNCHANGED <<error_messages, prediction_possible, unit_price_pred,
                            regression_attempted, calls, raised>>
          \/ /\ RegressionEntered
             /\ check.incomplete
             /\ RegressionRaises(MissingMessage(variant, "regression", check))
             /\ UNCHANGED <<regression_attempted, calls, raised>>
          \/ /\ RegressionEntered
             /\ ~check.incomplete
             /\ calls' = Append(calls, TransformCall(row))
             /\ \E exc \in ForcedExceptions :
                  RegressionRaises(ExceptionMessage(variant, "regression", exc, "transform"))
             /\ raised' = raised \cup {"scaler"}
             /\ UNCHANGED regression_attempted
          \/ /\ RegressionEntered
             /\ ~check.incomplete
             /\ calls' = calls \o <<TransformCall(row),
                                    PredictCall("regression", Transform(row))>>
             /\ \E exc \in ForcedExceptions :
                  RegressionRaises(ExceptionMessage(variant, "regression", exc, "predict"))
             /\ raised' = raised \cup {"regression"}
             /\ UNCHANGED regression_attempted
          \/ /\ RegressionEntered
             /\ ~check.incomplete
             /\ pc' = StepAfter("regression")
             /\ calls' = calls \o <<TransformCall(row),
                                    PredictCall("regression", Transform(row))>>
             /\ raised' = raised
             /\ unit_price_pred' = ClampPrice(resources.regression_model)
             /\ regression_attempted' = (variant = "app1")
             /\ UNCHANGED <<error_messages, prediction_possible>>
    /\ UNCHANGED <<variant, invalid_items, all_inputs, market_pred_label,
                   price_level_pred_label, price_level_pred_code, display>>
    /\ UNCHANGED startup_vars
    /\ UNCHANGED formatter_vars
    /\ UNCHANGED widget_vars

-----------------------------------------------------------------------------
(* The result stage.                                                        *)

\* app.py: a label is shown unless it holds "错误" or "无效" or is "未进行预测"
LabelShownApp(label) == label.t \notin {"invalid", "invalid_name", "not_predicted"}
\* app1.py: a label is shown unless it is "预测失败" or "处理中..."
LabelShownApp1(label) == label \notin {PredictionFailed, Processing}

\* the text of the price level column: the label for the codes 1 and 0, "未知状态" otherwise
PriceLevelText(code) == IF code \in {PyInt(1), PyInt(0)} THEN "label" ELSE "unknown_state"

\* variant for C20: the three columns rendered whatever was recorded
DisplayAppAlwaysColumns ==
    [panel |-> TRUE,
     market |-> IF LabelShownApp(market_pred_label) THEN "label" ELSE "warning",
     price_level |-> IF LabelShownApp(price_level_pred_label)
                     THEN PriceLevelText(price_level_pred_code) ELSE "warning",
     unit_price |-> IF unit_price_pred # -1 THEN "metric" ELSE "warning",
     status |-> IF error_messages = <<>> THEN "success" ELSE "warning",
     errors |-> error_messages]

\* app.py 330-374: the three columns only "if not error_messages"
DisplayApp ==
    IF error_messages = <<>>
    THEN [panel |-> TRUE,
          market |-> IF LabelShownApp(market_pred_label) THEN "label" ELSE "warning",
          price_level |-> IF LabelShownApp(price_level_pred_label)
                          THEN PriceLevelText(price_level_pred_code) ELSE "warning",
          unit_price |-> IF unit_price_pred # -1 THEN "metric" ELSE "warning",
          status |-> "success", errors |-> <<>>]
    ELSE [panel |-> FALSE, market |-> "none", price_level |-> "none",
          unit_price |-> "none", status |-> "warning", errors |-> error_messages]

\* app1.py 382-467: the three columns always, each with its own failure text
DisplayApp1 ==
    [panel |-> TRUE,
     market |-> IF LabelShownApp1(market_pred_label) THEN "label" ELSE "error",
     price_level |-> IF LabelShownApp1(price_level_pred_label)
                        /\ price_level_pred_code # PyInt(-99)
                     THEN PriceLevelText(price_level_pred_code) ELSE "error",
     unit_price |-> IF regression_attempted /\ unit_price_pred # -1
                    THEN "metric" ELSE "error",
     status |-> IF error_messages = <<>> THEN "success" ELSE "warning",
     errors |-> error_messages]

Report ==
    /\ pc = "report"
    /\ pc' = "done"
    /\ display' = IF variant = "app" THEN DisplayApp ELSE DisplayApp1
    /\ UNCHANGED <<variant, invalid_items, all_inputs, prediction_possible,
                   error_messages, market_pred_label, price_level_pred_label,
                   price_level_pred_code, unit_price_pred, regression_attempted,
                   calls, raised>>
    /\ UNCHANGED startup_vars
    /\ UNCHANGED formatter_vars
    /\ UNCHANGED widget_vars

\* any interaction runs the script again from the top; st.cache_resource keeps what
\* load_resources returned
Rerun ==
    /\ pc \in {"init_failed", "invalid", "idle", "rejected", "done", "crashed"}
    /\ pc' = "loaded"
    /\ invalid_items' = <<>>
    /\ selectbox_inputs' = <<>>
    /\ numeric_inputs' = <<>>
    /\ all_select_valid' = TRUE
    /\ RequestReset
    /\ UNCHANGED variant
    /\ UNCHANGED startup_vars
    /\ UNCHANGED formatter_vars

Next ==
    \/ load_resources
    \/ StopOnLoadFailure
    \/ ValidateResources
    \/ RenderSidebar
    \/ PressButton
    \/ MarketStep
    \/ PriceLevelStep
    \/ RegressionStep
    \/ Report
    \/ Rerun

Spec == Init /\ [][Next]_vars

-----------------------------------------------------------------------------
(* The option formatter on its own: one call on one mapping.                *)

\* the largest number of entries of a mapping given to the formatter
MaxEntries == 3
\* the codes a mapping may hold: ints, strings of digits, a string that is no
\* number, None
FormatterCodes == {PyInt(2), PyInt(10), PyInt(-1), PyStr(2), PyStr(3), PyName(7), PyNone}
\* the objects given to the formatter: something that is no dict, and the dicts of
\* up to MaxEntries names (named 21, 22, ... in the order of the dict)
FormatterInputs ==
    {NotADict} \cup
    UNION { { DictEntry([i \in 1..n |-> <<PyName(20 + i), codes[i]>>]) :
                codes \in [1..n -> FormatterCodes] } : n \in 0..MaxEntries }

FormatterInit ==
    /\ variant \in Variants
    /\ pc = "format"
    /\ name_to_code_mapping \in FormatterInputs
    /\ code_to_display_string = <<>>
    /\ files_missing = {}
    /\ files_corrupt = {}
    /\ resources = NoResources
    /\ load_error_info = <<>>
    /\ invalid_items = <<>>
    /\ selectbox_inputs = <<>>
    /\ numeric_inputs = <<>>
    /\ all_select_valid = TRUE
    /\ all_inputs = <<>>
    /\ prediction_possible = TRUE
    /\ error_messages = <<>>
    /\ market_pred_label = InitialLabel(variant)
    /\ price_level_pred_label = InitialLabel(variant)
    /\ price_level_pred_code = InitialPriceLevelCode(variant)
    /\ unit_price_pred = UnitPriceFailed
    /\ regression_attempted = FALSE
    /\ calls = <<>>
    /\ raised = {}
    /\ display = NothingShown

\* display_map = format_mapping_options_for_selectbox(mappings[key])
FormatOptions ==
    /\ pc = "format"
    /\ code_to_display_string' =
          format_mapping_options_for_selectbox(variant, name_to_code_mapping)
    /\ pc' = "formatted"
    /\ UNCHANGED <<variant, invalid_items, name_to_code_mapping>>
    /\ UNCHANGED startup_vars
    /\ UNCHANGED widget_vars
    /\ UNCHANGED request_vars

FormatterNext == FormatOptions

FormatterSpec == FormatterInit /\ [][FormatterNext]_vars

-----------------------------------------------------------------------------
(* What a request has done, read from its variables.                        *)

RequestPcs == {"market", "price_level", "regression", "report", "done"}
ModelOrder(m) == CASE m = "market" -> 1 [] m = "price_level" -> 2 [] m = "regression" -> 3
\* the step of model m is over
StepOver(m) ==
    \/ pc \in {"report", "done"}
    \/ pc = "regression" /\ m # "regression"
    \/ pc = "price_level" /\ m = "market"

MessagesOf(m) == SelectSeq(error_messages, LAMBDA e : e.model = m)
PredictInvoked(m) == \E i \in DOMAIN calls : calls[i].op = "predict" /\ calls[i].on = m
TransformInvoked == \E i \in DOMAIN calls : calls[i].op = "transform"
Attempted(m) ==
    PredictInvoked(m) \/ MessagesOf(m) # <<>> \/ (m = "regression" /\ TransformInvoked)
Succeeded(m) == StepOver(m) /\ PredictInvoked(m) /\ MessagesOf(m) = <<>>

ResultOf(m) ==
    CASE m = "market" -> market_pred_label
      [] m = "price_level" -> price_level_pred_label
      [] m = "regression" -> PyInt(unit_price_pred)

NotAttempted == [kind |-> "not_attempted", names |-> {}, value |-> PyNone]
\* the outcome of model m: Success(value), InsufficientInput(names), Failure, or none
Outcome(m) ==
    IF MessagesOf(m) # <<>>
    THEN IF MessagesOf(m)[1].kind = "missing_features"
         THEN [kind |-> "missing", names |-> MessagesOf(m)[1].names, value |-> PyNone]
         ELSE [kind |-> "failure", names |-> {}, value |-> PyNone]
    ELSE IF PredictInvoked(m)
         THEN [kind |-> "success", names |-> {}, value |-> ResultOf(m)]
         ELSE NotAttempted

\* the keys the user's two tables hold, and the value entered for a key
EnteredPairs ==
    {selectbox_inputs[i] : i \in DOMAIN selectbox_inputs}
    \cup {numeric_inputs[i] : i \in DOMAIN numeric_inputs}
EnteredKeys == {p[1] : p \in EnteredPairs}
EnteredValue(k) == (CHOOSE p \in EnteredPairs : p[1] = k)[2]
ListedNames(m) ==
    LET needed == FeaturesNeeded(resources, m) IN {needed[i] : i \in DOMAIN needed}
\* the names of model m's feature list that no table holds
AbsentNames(m) == ListedNames(m) \ EnteredKeys
StubOutput(m) ==
    CASE m = "market" -> resources.market_model
      [] m = "price_level" -> resources.price_level_model
      [] m = "regression" -> PyInt(resources.regression_model)

-----------------------------------------------------------------------------
(* Isolation of the three models.                                           *)

\* what model k yields when it runs on complete inputs and nothing raises
NominalOutcome(k) ==
    [kind |-> "success", names |-> {},
     value |-> IF k = "regression"
               THEN PyInt(ClampPrice(resources.regression_model))
               ELSE DecodeLabel(variant, OutputMap(resources, k), StubOutput(k)).label]

\* a finished request on a valid snapshot whose only failures are forced predict failures
ForcedPredictFailuresOnly ==
    /\ pc = "done"
    /\ \A m \in Models : AbsentNames(m) = {}
    /\ raised \subseteq Models
    /\ \A i \in DOMAIN error_messages : error_messages[i].at = "predict"

\* model k is skipped because of the failure of an earlier model: in app.py every
\* later model, in app1.py the price level model after the market model
GatedBy(k, failed) ==
    \E f \in failed :
        \/ variant = "app" /\ ModelOrder(f) < ModelOrder(k)
        \/ variant = "app1" /\ f = "market" /\ k = "price_level"

\* C1 as stated: when exactly one model's predict call raises, each of the other two
\* models ends with the outcome it has when no failure is forced, in both variants.
C1_OthersKeepNominalOutcome ==
    (ForcedPredictFailuresOnly /\ Cardinality(raised) = 1)
        => \A k \in Models \ raised : Outcome(k) = NominalOutcome(k)

\* C1 (amended): when at most one model's predict call raises, every other model
\* that is not gated by the failing one ends with its nominal outcome, and a gated
\* model is not attempted at all; the regression model of app1.py is never gated.
C1_IsolationUpToGating ==
    (ForcedPredictFailuresOnly /\ Cardinality(raised) <= 1)
        => \A k \in Models \ raised :
              Outcome(k) = IF GatedBy(k, raised) THEN NotAttempted ELSE NominalOutcome(k)

C1_Witness ==
    /\ ForcedPredictFailuresOnly
    /\ variant = "app1"
    /\ raised = {"market"}
    /\ Outcome("market").kind = "failure"
    /\ Outcome("price_level") = NotAttempted
    /\ Outcome("regression") = NominalOutcome("regression")

-----------------------------------------------------------------------------
(* The completeness gate.                                                   *)

\* the step of model m is entered: no earlier model that gates it has a message
StepEntered(m) ==
    \A f \in Models : GatedBy(m, {f}) => MessagesOf(f) = <<>>

\* C2 as stated: a model whose feature list names an absent feature ends with the
\* missing-features outcome that names exactly the absent features, for each of
\* the three models.
C2_AbsentNamesReported ==
    pc = "done" =>
        \A m \in Models :
            AbsentNames(m) # {} =>
                /\ Outcome(m).kind = "missing"
                /\ Outcome(m).names = AbsentNames(m)

\* C2 (amended): a model whose step is entered and whose feature list names an
\* absent feature ends with the missing-features outcome naming exactly the absent
\* features (app1.py lists them in the order of the feature list); a model whose
\* step is skipped has no outcome.
C2_AbsentNamesReportedWhenEntered ==
    pc = "done" =>
        \A m \in Models :
            /\ (StepEntered(m) /\ AbsentNames(m) # {}) =>
                  /\ Outcome(m).kind = "missing"
                  /\ Outcome(m).names = AbsentNames(m)
                  /\ Len(MessagesOf(m)) = 1
                  /\ variant = "app1" =>
                        MessagesOf(m)[1].listed =
                            SelectSeq(FeaturesNeeded(resources, m),
                                      LAMBDA feat : feat \in AbsentNames(m))
            /\ ~StepEntered(m) => Outcome(m) = NotAttempted

C2_Witness ==
    /\ pc = "done"
    /\ variant = "app1"
    /\ AbsentNames("market") = {"danjia", "xiaoqu"}
    /\ Outcome("market").names = {"danjia", "xiaoqu"}
    /\ Outcome("price_level") = NotAttempted
    /\ AbsentNames("price_level") # {}
    /\ AbsentNames("regression") = {"danjia", "xiaoqu"}
    /\ Outcome("regression").kind = "missing"

-----------------------------------------------------------------------------
(* Label decoding.                                                          *)

Classifiers == {"market", "price_level"}

-----------------------------------------------------------------------------
(* The order of the row.                                                    *)

\* the row the feature list of model m asks for: one value per name, in its order
ExpectedRow(m) ==
    [j \in DOMAIN FeaturesNeeded(resources, m) |->
        EnteredValue(FeaturesNeeded(resources, m)[j])]

\* C4: the row given to a predictor or to the scaler holds the values of the
\* model's feature list in the order of that list, whatever the order in which the
\* inputs were inserted; the regressor receives the scaled row in the same order.
C4_RowFollowsFeatureList ==
    \A i \in DOMAIN calls :
        /\ (calls[i].op = "predict" /\ calls[i].on \in Classifiers)
              => calls[i].arg = ExpectedRow(calls[i].on)
        /\ calls[i].op = "transform" => calls[i].arg = ExpectedRow("regression")
        /\ (calls[i].op = "predict" /\ calls[i].on = "regression")
              => /\ Len(calls[i].arg) = Len(ExpectedRow("regression"))
                 /\ \A j \in DOMAIN calls[i].arg :
                       calls[i].arg[j].v = ExpectedRow("regression")[j].v

C4_Witness ==
    /\ pc = "done"
    /\ selectbox_inputs # <<>>
    /\ selectbox_inputs[1][1] = "fangling"
    /\ FeaturesNeeded(resources, "market") = <<"ting", "zongjia", "louceng">>
    /\ \E i \in DOMAIN calls :
          /\ calls[i] = PredictCall("market", ExpectedRow("market"))
          /\ calls[i].arg[1] = EnteredValue("ting")
          /\ calls[i].arg[3] = EnteredValue("louceng")
    /\ TransformInvoked

-----------------------------------------------------------------------------
(* A selection that could not be made.                                      *)

UnsetKeys == {k \in DictKeys(selectbox_inputs) : DictGet(selectbox_inputs, k) = PyNone}

-----------------------------------------------------------------------------
(* The floor of the unit price.                                             *)

\* C6: whenever the regression step completes without error the unit price is
\* max(0, model output): never negative, and 0 for a negative output such as -50;
\* it is the value shown as the metric of the result.
C6_PriceNeverNegative ==
    Succeeded("regression") =>
        /\ unit_price_pred =
              IF resources.regression_model < 0 THEN 0 ELSE resources.regression_model
        /\ unit_price_pred >= 0
        /\ (pc = "done" /\ display.panel) => display.unit_price = "metric"

C6_Witness ==
    /\ pc = "done"
    /\ Succeeded("regression")
    /\ resources.regression_model = -50
    /\ unit_price_pred = 0
    /\ display.unit_price = "metric"

-----------------------------------------------------------------------------
(* A code the output mapping does not hold.                                 *)

\* the classifier m returned an integer code that is no key of its output mapping
UnknownCode(m) ==
    /\ StubOutput(m).t = "int"
    /\ \A i \in DOMAIN OutputMap(resources, m) :
          OutputMap(resources, m)[i][1] # StubOutput(m)

\* C7: when a classifier returns an integer code that has no entry in its output
\* mapping, the model ends with a success whose label is the placeholder holding
\* the code; no message is recorded for it, nothing is raised, and every later
\* model whose step is not closed by a failure is attempted.
C7_UnknownCodeIsSuccess ==
    \A m \in Classifiers :
        (StepOver(m) /\ PredictInvoked(m) /\ m \notin raised /\ UnknownCode(m)) =>
            /\ MessagesOf(m) = <<>>
            /\ Outcome(m) = [kind |-> "success", names |-> {},
                             value |-> [t |-> "invalid", v |-> StubOutput(m).v]]
            /\ pc # "crashed"
            /\ \A k \in Models :
                  (ModelOrder(k) > ModelOrder(m) /\ StepOver(k) /\ StepEntered(k))
                      => Attempted(k)
            /\ (m = "market" /\ StepOver("price_level")) => Attempted("price_level")

C7_Witness ==
    /\ pc = "done"
    /\ UnknownCode("market")
    /\ StubOutput("market") = PyInt(2)
    /\ market_pred_label = [t |-> "invalid", v |-> 2]
    /\ error_messages = <<>>
    /\ PredictInvoked("price_level")
    /\ PredictInvoked("regression")

-----------------------------------------------------------------------------
(* Containment of the errors of a model.                                    *)

\* the model whose step holds the call that raised, and the name of that call
ModelOfCall(p) == IF p = "scaler" THEN "regression" ELSE p
OperationOfCall(p) == IF p = "scaler" THEN "transform" ELSE "predict"

\* C8: an exception raised by a transform, a predict or a decode is taken by the
\* except clause of the step of its model and recorded as one message of that model
\* and of no other; it never leaves the button handler, so no request ends before
\* the result stage, which shows every recorded message.
C8_ErrorsContained ==
    /\ pc # "crashed"
    /\ \A p \in raised :
          \E i \in DOMAIN error_messages :
              /\ error_messages[i].model = ModelOfCall(p)
              /\ error_messages[i].kind = "exception"
              /\ error_messages[i].at = OperationOfCall(p)
    /\ \A i \in DOMAIN error_messages :
          (error_messages[i].kind = "exception" /\ error_messages[i].at # "decode")
              => \E p \in raised : /\ ModelOfCall(p) = error_messages[i].model
                                   /\ OperationOfCall(p) = error_messages[i].at
    /\ \A m \in Models : Len(MessagesOf(m)) <= 1
    /\ pc = "done" => display.errors = error_messages

C8_Witness ==
    /\ pc = "done"
    /\ variant = "app1"
    /\ raised = {"market", "scaler"}
    /\ Len(error_messages) = 2
    /\ error_messages[1].model = "market"
    /\ error_messages[2].model = "regression"
    /\ error_messages[2].exc = "RuntimeError"
    /\ display.errors = error_messages

\* a decode that raises is contained as well
C8_DecodeWitness ==
    /\ pc = "done"
    /\ \E i \in DOMAIN error_messages : error_messages[i].at = "decode"

-----------------------------------------------------------------------------
(* No inference on incomplete inputs.                                       *)

\* C9: in a request in which a name of the feature list of a model is absent from
\* the inputs, the predict of that model is never called, nor the transform of the
\* scaler when the model is the regressor.
C9_NoCallWhenIncomplete ==
    pc \in RequestPcs =>
        \A m \in Models :
            AbsentNames(m) # {} =>
                /\ ~PredictInvoked(m)
                /\ m = "regression" => ~TransformInvoked

C9_Witness ==
    /\ pc = "done"
    /\ AbsentNames("regression") # {}
    /\ Outcome("regression").kind = "missing"
    /\ AbsentNames("market") = {}
    /\ PredictInvoked("market")
    /\ ~TransformInvoked

-----------------------------------------------------------------------------
(* What a failed start-up reports.                                          *)

ReportedFiles == {load_error_info[i].file : i \in DOMAIN load_error_info}
ReportedKeys == {invalid_items[i].key : i \in DOMAIN invalid_items}
\* the required keys that are missing or of the wrong type in what was loaded
OffendingKeys ==
    {required_mappings[i] : i \in {j \in DOMAIN required_mappings :
        \/ ~DictHas(resources.mappings, required_mappings[j])
        \/ ~DictGet(resources.mappings, required_mappings[j]).isdict}}
    \cup
    {required_features[i] : i \in {j \in DOMAIN required_features :
        \/ ~DictHas(resources.feature_names, required_features[j])
        \/ ~DictGet(resources.feature_names, required_features[j]).islist}}

\* C10 as stated: a failed start-up reports every offending item: every missing
\* file, every file that fails to load once all files are there, and every
\* required key that is missing or of the wrong type.
C10_EveryOffenderReported ==
    /\ pc = "init_failed" =>
          /\ files_missing \subseteq ReportedFiles
          /\ files_missing = {} => files_corrupt \subseteq ReportedFiles
    /\ pc = "invalid" => ReportedKeys = OffendingKeys

-----------------------------------------------------------------------------
(* What the validation lets through.                                        *)

\* the script is past the validation of the resources
PastValidation == pc \in {"sidebar", "idle", "rejected"} \cup RequestPcs
CodesOf(key) ==
    LET items == DictGet(resources.mappings, key).items
    IN [i \in DOMAIN items |-> items[i][2]]
DistinctCodes(key) ==
    \A i, j \in DOMAIN CodesOf(key) : CodesOf(key)[i] = CodesOf(key)[j] => i = j

\* C11 as stated: the script gets past the validation only when every categorical
\* mapping has pairwise distinct codes and every feature list is non-empty; a
\* repeated code or an empty feature list stops the run before inputs are collected.
C11_OnlySoundDataAccepted ==
    PastValidation =>
        /\ \A i \in DOMAIN categorical_keys : DistinctCodes(categorical_keys[i])
        /\ \A m \in Models : FeaturesNeeded(resources, m) # <<>>

-----------------------------------------------------------------------------
(* Nothing runs after a failed start-up.                                    *)

\* the start-up failed: a file is missing, a load raised, or a required key is
\* missing or of the wrong type
InitializationFailed ==
    /\ pc # "load"
    /\ \/ files_missing # {}
       \/ files_corrupt # {}
       \/ resources.loaded /\ OffendingKeys # {}

\* C12: after a failed start-up the script stops before the sidebar in this run and
\* in every rerun: no input is collected, no request is built, and neither predict
\* nor transform is ever invoked.
C12_NoInferenceAfterInitFailure ==
    InitializationFailed =>
        /\ pc \in {"loaded", "init_failed", "invalid"}
        /\ calls = <<>>
        /\ all_inputs = <<>>
        /\ selectbox_inputs = <<>> /\ numeric_inputs = <<>>
        /\ \A m \in Models : ~PredictInvoked(m)
        /\ ~TransformInvoked

C12_Witness ==
    /\ pc = "invalid"
    /\ InitializationFailed
    /\ \E i \in DOMAIN invalid_items : invalid_items[i].kind = "feature_list"
    /\ ~DictHas(resources.mappings, "louceng")
    /\ calls = <<>>

-----------------------------------------------------------------------------
(* The option formatter.                                                    *)

MappingItems == name_to_code_mapping.items
\* every code of the mapping parses as an integer, and no two give the same integer
AllCodesParse ==
    /\ name_to_code_mapping.isdict
    /\ \A i \in DOMAIN MappingItems : MappingItems[i][2].t \in {"int", "str"}
DistinctIntegerCodes ==
    \A i, j \in DOMAIN MappingItems : MappingItems[i][2].v = MappingItems[j][2].v => i = j

\* C13: for a mapping whose codes all parse as integers and are pairwise distinct,
\* the formatter returns one entry per entry of the mapping, keyed by the integer
\* code, with the display string "<name> (<code>)", in ascending order of the code.
C13_FormatterSortsByCode ==
    (pc = "formatted" /\ AllCodesParse /\ DistinctIntegerCodes) =>
        /\ Len(code_to_display_string) = Len(MappingItems)
        /\ \A i \in DOMAIN code_to_display_string :
              code_to_display_string[i][1].t = "int"
        /\ \A i, j \in DOMAIN code_to_display_string :
              i < j => code_to_display_string[i][1].v < code_to_display_string[j][1].v
        /\ \A k \in DOMAIN MappingItems :
              \E i \in DOMAIN code_to_display_string :
                  /\ code_to_display_string[i][1] = PyInt(MappingItems[k][2].v)
                  /\ code_to_display_string[i][2] =
                        [name |-> MappingItems[k][1], code |-> PyStr(MappingItems[k][2].v)]

C13_Witness ==
    /\ pc = "formatted"
    /\ MappingItems = << <<PyName(21), PyInt(10)>>, <<PyName(22), PyStr(3)>>,
                         <<PyName(23), PyInt(-1)>> >>
    /\ code_to_display_string =
          << <<PyInt(-1), [name |-> PyName(23), code |-> PyStr(-1)]>>,
             <<PyInt(3), [name |-> PyName(22), code |-> PyStr(3)]>>,
             <<PyInt(10), [name |-> PyName(21), code |-> PyStr(10)]>> >>
\* some code of the mapping does not parse as an integer
SomeCodeUnparsable ==
    /\ name_to_code_mapping.isdict
    /\ \E i \in DOMAIN MappingItems : MappingItems[i][2].t \in {"name", "none"}

\* C14 as stated: when a code does not parse as an integer the formatter still
\* returns an entry for every entry of the mapping, the unparsable ones included,
\* ordered lexicographically by the text of the code, in both scripts.
C14_FallbackKeepsWholeTable ==
    (pc = "formatted" /\ SomeCodeUnparsable) =>
        /\ \A k \in DOMAIN MappingItems :
              \E i \in DOMAIN code_to_display_string :
                  code_to_display_string[i][2].name = MappingItems[k][1]
        /\ \A i, j \in DOMAIN code_to_display_string :
              i < j => ~StrLess(code_to_display_string[j][2].code,
                                code_to_display_string[i][2].code)

-----------------------------------------------------------------------------
(* Scaling.                                                                 *)

TransformCalls == {i \in DOMAIN calls : calls[i].op = "transform"}

\* C15: the predict of the regressor receives exactly what scaler.transform returned
\* for the row in the order of the regression feature list, and the transform comes
\* right before it; the predict of a classifier receives the raw row of its own
\* feature list, and no transform is applied for a classifier.
C15_ScalingOnlyForRegressor ==
    /\ Cardinality(TransformCalls) <= 1
    /\ \A i \in DOMAIN calls :
          /\ calls[i].op = "transform" =>
                /\ calls[i].on = "scaler"
                /\ calls[i].arg = ExpectedRow("regression")
                /\ \A k \in DOMAIN calls :
                      (calls[k].op = "predict" /\ calls[k].on \in Classifiers) => k < i
          /\ (calls[i].op = "predict" /\ calls[i].on = "regression") =>
                /\ i - 1 \in TransformCalls
                /\ calls[i].arg =
                      [j \in DOMAIN calls[i - 1].arg |->
                          [t |-> "scaled", v |-> calls[i - 1].arg[j].v]]
          /\ (calls[i].op = "predict" /\ calls[i].on \in Classifiers) =>
                /\ calls[i].arg = ExpectedRow(calls[i].on)
                /\ \A j \in DOMAIN calls[i].arg : calls[i].arg[j].t # "scaled"

C15_Witness ==
    /\ pc = "done"
    /\ Succeeded("regression")
    /\ Len(calls) = 4
    /\ calls[1].on = "market" /\ calls[1].arg[1].t = "int"
    /\ calls[2].on = "price_level" /\ calls[2].arg[1].t = "int"
    /\ calls[3] = TransformCall(ExpectedRow("regression"))
    /\ calls[4].op = "predict" /\ calls[4].on = "regression"
    /\ calls[4].arg[1].t = "scaled"

-----------------------------------------------------------------------------
(* The order of the calls of one request.                                   *)

PredictIndexes == {i \in DOMAIN calls : calls[i].op = "predict"}

\* C16: within one request the predict calls that occur are in the order market
\* segment, price level, unit price, and no model's predict is invoked twice: a
\* model that failed is not tried again.
C16_PredictOrderNoRetry ==
    /\ \A i, j \in PredictIndexes :
          i < j => ModelOrder(calls[i].on) < ModelOrder(calls[j].on)
    /\ \A m \in Models :
          /\ Cardinality({i \in PredictIndexes : calls[i].on = m}) <= 1
          /\ Len(MessagesOf(m)) <= 1
          /\ (m \in raised /\ pc \in RequestPcs) =>
                Cardinality({i \in PredictIndexes : calls[i].on = m}) = 1

C16_Witness ==
    /\ pc = "done"
    /\ variant = "app1"
    /\ raised = {"price_level"}
    /\ Len(calls) = 4
    /\ calls[1].on = "market"
    /\ calls[2].on = "price_level"
    /\ calls[4].on = "regression"
    /\ Succeeded("regression")

-----------------------------------------------------------------------------
(* The regression step of app1.py.                                          *)

\* C17: in app1.py every request that passes the None gate attempts the regression
\* step, whatever the market and the price level step did: their failure neither
\* skips the regressor nor changes its result, and only a market failure clears
\* prediction_possible, a price level failure does not.
C17_App1RegressionAlwaysAttempted ==
    (variant = "app1" /\ pc \in {"report", "done"}) =>
        /\ Attempted("regression")
        /\ IF AbsentNames("regression") # {}
           THEN Outcome("regression").kind = "missing"
           ELSE /\ TransformInvoked
                /\ raised \cap {"scaler", "regression"} = {} =>
                      Outcome("regression") = NominalOutcome("regression")
        /\ prediction_possible <=> MessagesOf("market") = <<>>

C17_Witness ==
    /\ variant = "app1"
    /\ pc = "done"
    /\ Outcome("market").kind = "success"
    /\ Outcome("price_level").kind = "missing"
    /\ prediction_possible
    /\ Outcome("regression") = NominalOutcome("regression")
    /\ regression_attempted

\* the same after a market failure
C17_MarketFailureWitness ==
    /\ variant = "app1"
    /\ pc = "done"
    /\ Outcome("market").kind = "missing"
    /\ ~prediction_possible
    /\ Outcome("regression") = NominalOutcome("regression")

-----------------------------------------------------------------------------
(* The gating of app.py.                                                    *)

\* C18: in app.py a model is attempted only when every earlier model succeeded:
\* after the first failure, a missing feature or an exception, no later model is
\* attempted, so a request records at most one message, and prediction_possible
\* is false exactly when a message is recorded.
C18_AppGatesOnEarlierSuccess ==
    (variant = "app" /\ pc \in RequestPcs) =>
        /\ Len(error_messages) <= 1
        /\ prediction_possible <=> error_messages = <<>>
        /\ \A m, k \in Models :
              (ModelOrder(m) < ModelOrder(k) /\ Attempted(k)) => Succeeded(m)
        /\ \A m, k \in Models :
              (ModelOrder(m) < ModelOrder(k) /\ MessagesOf(m) # <<>>) =>
                  /\ ~PredictInvoked(k)
                  /\ ~Attempted(k)

C18_Witness ==
    /\ variant = "app"
    /\ pc = "done"
    /\ Succeeded("market")
    /\ Outcome("price_level").kind = "failure"
    /\ ~Attempted("regression")
    /\ AbsentNames("regression") = {}
    /\ ~prediction_possible
    /\ Len(error_messages) = 1

-----------------------------------------------------------------------------
(* The failure value of the unit price.                                     *)

\* C19: at the end of a request unit_price_pred is -1 exactly when the regression
\* step was skipped or failed; a completed regression leaves a value >= 0, so the
\* test "unit_price_pred != -1" of the result stage is true exactly for a completed
\* regression, also when the regressor itself returns -1.
C19_SentinelMeansNoResult ==
    pc \in {"report", "done"} =>
        /\ (unit_price_pred = -1) <=> ~Succeeded("regression")
        /\ (unit_price_pred # -1) => unit_price_pred >= 0
        /\ ~Succeeded("regression") <=>
              (~Attempted("regression") \/ MessagesOf("regression") # <<>>)
        /\ (pc = "done" /\ display.panel) =>
              (display.unit_price = "metric" <=> Succeeded("regression"))

C19_Witness ==
    /\ pc = "done"
    /\ resources.regression_model = -1
    /\ Succeeded("regression")
    /\ unit_price_pred = 0
    /\ display.unit_price = "metric"

-----------------------------------------------------------------------------
(* The result panel of app.py.                                              *)

\* C20: in app.py the three result columns are rendered exactly when no message
\* was recorded, that is when all three models completed; when a model fails no
\* result is shown, not even the label of a model that completed before it.
C20_AppPanelAllOrNothing ==
    (variant = "app" /\ pc = "done") =>
        /\ display.panel <=> error_messages = <<>>
        /\ display.panel <=> \A m \in Models : Succeeded(m)
        /\ display.panel =>
              /\ display.market \in {"label", "warning"}
              /\ display.price_level \in {"label", "unknown_state", "warning"}
              /\ display.unit_price = "metric"
              /\ display.status = "success"
        /\ ~display.panel =>
              /\ display.market = "none"
              /\ display.price_level = "none"
              /\ display.unit_price = "none"
              /\ display.status = "warning"
              /\ display.errors = error_messages

C20_Witness ==
    /\ variant = "app"
    /\ pc = "done"
    /\ Succeeded("market")
    /\ market_pred_label = PyName(2)
    /\ Outcome("price_level").kind = "failure"
    /\ ~display.panel
    /\ display.market = "none"

-----------------------------------------------------------------------------
(* The two completeness checks side by side.                                *)

\* the market feature list of the loaded files, and the verdict of each script's
\* check on it with the inputs of the request
MarketNeeded == FeaturesNeeded(resources, "market")
VerdictApp == CompletenessApp(MarketNeeded, all_inputs)
VerdictApp1 == CompletenessApp1(MarketNeeded, all_inputs)
\* the messages of the market step that report missing features
MissingReports ==
    SelectSeq(MessagesOf("market"), LAMBDA e : e.kind = "missing_features")
\* a name stands at two places of the market feature list
RepeatsAName(needed) ==
    \E i, j \in DOMAIN needed : i # j /\ needed[i] = needed[j]

\* C21 as stated: for every market feature list (lists that repeat a name included)
\* and every input table, the length comparison of app.py reports missing features
\* exactly when the per-name loop of app1.py finds absent names, and then both name
\* the same set of features; the running script reports accordingly.
C21_CompletenessChecksAgree ==
    (pc \in RequestPcs /\ StepOver("market")) =>
        /\ VerdictApp.incomplete <=> VerdictApp1.incomplete
        /\ VerdictApp.incomplete => VerdictApp.names = VerdictApp1.names
        /\ (MissingReports # <<>>) <=> VerdictApp1.incomplete
        /\ \A i \in DOMAIN MissingReports : MissingReports[i].names = VerdictApp1.names

\* the same agreement for the feature lists in which no name is repeated
C21_AgreeWithoutRepeats ==
    (pc \in RequestPcs /\ StepOver("market") /\ ~RepeatsAName(MarketNeeded)) =>
        /\ VerdictApp.incomplete <=> VerdictApp1.incomplete
        /\ VerdictApp.incomplete => VerdictApp.names = VerdictApp1.names
        /\ (MissingReports # <<>>) <=> VerdictApp1.incomplete
        /\ \A i \in DOMAIN MissingReports : MissingReports[i].names = VerdictApp1.names

\* app.py refuses a request whose market feature list repeats a name although
\* every listed feature was entered, and names no feature
C21_FalseAlarm ==
    /\ variant = "app"
    /\ pc \in RequestPcs /\ StepOver("market")
    /\ RepeatsAName(MarketNeeded)
    /\ ~VerdictApp1.incomplete
    /\ MissingReports # <<>>
    /\ MissingReports[1].names = {}
    /\ ~PredictInvoked("market")

\* app1.py runs the market model on the same files and inputs
C21_App1Proceeds ==
    /\ variant = "app1"
    /\ pc \in RequestPcs /\ StepOver("market")
    /\ RepeatsAName(MarketNeeded)
    /\ ~VerdictApp1.incomplete
    /\ MissingReports = <<>>
    /\ PredictInvoked("market")

\* a repeated name that no widget collects: both scripts report it
C21_RepeatedAbsentName ==
    /\ pc \in RequestPcs /\ StepOver("market")
    /\ RepeatsAName(MarketNeeded)
    /\ VerdictApp.incomplete /\ VerdictApp1.incomplete
    /\ VerdictApp.names = {"danjia"}
    /\ MissingReports # <<>>

====
